---- MODULE Spec2Model ----
(***************************************************************************)
(* Model of the threaded crawlers of o0fung/mq-scrapper:                   *)
(*   src/msc_scapper.py        (prog = "msc")                              *)
(*   src/template/scapper.py   (prog = "tpl")                              *)
(* Each worker thread runs crawler().  A step of a worker is one access to  *)
(* a shared object together with the thread-local code that follows it: one *)
(* Queue call, one block run under visited_lock or data_lock, one call of   *)
(* fetch_url (which touches no shared object).                              *)
(***************************************************************************)
EXTENDS Integers, Sequences, FiniteSets, TLC

(***************************************************************************)
(* Bounds of the model.                                                    *)
(***************************************************************************)
NumWorkers == 2      \* worker threads started by the main thread
MaxLinks == 2        \* <a href> elements on one page
MaxProducts == 1     \* <li class="product"> elements on one page
MaxBudget == 2       \* largest finite max_crawl tried for the template
MaxFailures == 4     \* failed requests a server answers before its final answer

Workers == 1..NumWorkers

(***************************************************************************)
(* URLs are sequences of tokens, so that prefix tests, urljoin and the     *)
(* regular expression /page/\d+/ are computed on their shape.              *)
(***************************************************************************)
target_url == <<"http", "site", "/", "list">>
page_url == <<"http", "site", "/", "list", "/", "page", "/", "2", "/">>
item_url == <<"http", "site", "/", "item", "/", "1">>
page1_url == <<"http", "site", "/", "list", "/", "page", "/", "1", "/">>
URLS == {target_url, page_url, item_url}

\* the href attribute values a page may carry
HREFS == {page_url, <<"/", "item", "/", "1">>, <<"#">>}

\* the href attribute values of a site whose links all lead to product pages
PAGE_HREFS == {page_url, <<"/", "list", "/", "page", "/", "1", "/">>}

Digits == {"1", "2"}

math_inf == 0 - 1

\* crawl_count < max_crawl, with max_crawl possibly math.inf
BelowMax(count, max) == max = math_inf \/ count < max

\* str.startswith on token sequences
StartsWith(s, p) == Len(p) <= Len(s) /\ SubSeq(s, 1, Len(p)) = p

\* url_pattern.match(url): the pattern is only tried at the start of the URL
url_pattern_match(url) ==
  /\ 5 <= Len(url)
  /\ url[1] = "/"
  /\ url[2] = "page"
  /\ url[3] = "/"
  /\ url[4] \in Digits
  /\ url[5] = "/"

\* url_pattern = re.compile(r"/page/\d+/"); url_pattern.search(url)
url_pattern_search(url) ==
  \E i \in 1..Len(url) :
     /\ i + 4 <= Len(url)
     /\ url[i] = "/"
     /\ url[i + 1] = "page"
     /\ url[i + 2] = "/"
     /\ url[i + 3] \in Digits
     /\ url[i + 4] = "/"

\* requests.compat.urljoin(target_url, url) for the reference shapes of HREFS
urljoin(base, url) ==
  IF url = <<>> \/ url[1] = "#" THEN base
  ELSE IF url[1] = "/" THEN SubSeq(base, 1, 2) \o url
  ELSE url

\* msc_scapper.py: links that are skipped before they are resolved
NonNavigational(url) == url = <<>> \/ url[1] \in {"#", "javascript:", "mailto:", "tel:"}

SkipLink(p, url) == p = "msc" /\ NonNavigational(url)

\* absolute_url of one link element
Absolute(url) == IF url # <<>> /\ url[1] = "http" THEN url ELSE urljoin(target_url, url)

(***************************************************************************)
(* fetch_url: the body, and the retry decorator around it.                 *)
(***************************************************************************)
stop_after_attempt == 4

NOT_FOUND == {"status404", "raised404"}
FINAL_RESULTS == {"ok"} \cup NOT_FOUND
ERROR_RESULTS == {"http_error", "net_error"}

\* a server: it fails `fails` times with `error`, then always answers `final`
SERVERS == [fails : 0..MaxFailures, error : ERROR_RESULTS, final : FINAL_RESULTS]

\* what session.get gives for the n-th request
RequestResult(server, n) == IF n <= server.fails THEN server.error ELSE server.final

\* nothing is recognised as not-found: every 404 is raised and retried
TryOnce_no404(p, r) == IF r = "ok" THEN "Response" ELSE "raise"

\* one execution of the body of fetch_url on the request result r
TryOnce(p, r) ==
  IF p = "msc"
  THEN CASE r = "ok" -> "Response"
         [] r = "status404" -> "None"
         [] r = "raised404" -> "None"
         [] OTHER -> "raise"
  ELSE IF r = "ok" THEN "Response" ELSE "raise"

\* the decorator gives up one attempt early
ShouldStop_early(attempt_number) == attempt_number >= stop_after_attempt - 1

\* tenacity stop=stop_after_attempt(4)
ShouldStop(attempt_number) == attempt_number >= stop_after_attempt

\* fetch_url(url) against a server, from attempt n on: the value returned or
\* the exception raised, the number of requests made and the last result
RECURSIVE FetchUrl(_, _, _)
FetchUrl(p, server, n) ==
  LET r == RequestResult(server, n)
      res == TryOnce(p, r)
  IN IF res # "raise" THEN [response |-> res, attempt_number |-> n, result |-> r]
     ELSE IF ShouldStop(n)
          THEN [response |-> "RetryError", attempt_number |-> n, result |-> r]
          ELSE FetchUrl(p, server, n + 1)

(***************************************************************************)
(* State.                                                                  *)
(***************************************************************************)
VARIABLES
  prog,                  \* which crawler runs
  max_crawl,             \* the crawl limit
  num_workers,           \* threads the main thread starts
  hrefs,                 \* the href attribute values the pages of the site carry
  high_priority_queue,
  low_priority_queue,
  visited_urls,
  product_data,
  pc,                    \* position of each worker in crawler()
  current_url,
  from_queue,            \* the queue current_url was taken from
  crawl_count,
  response,              \* value or exception fetch_url ended with
  attempt_number,        \* requests fetch_url made
  last_result,           \* result of its last request
  not_found_at_once,     \* its first request was answered 404
  links_seen,            \* link elements of the page reached so far
  absolute_url,
  products_seen,         \* product containers of the page reached so far
  main_pc,               \* position of the main thread
  threads,               \* number of threads started
  joined,                \* number of threads joined
  exported,              \* rows written to the CSV file
  fetch_calls,           \* history: calls of fetch_url per URL
  visited_adds,          \* history: visited_urls.add per URL
  offers,                \* history: offers of a URL before its first dequeue
  discovered,            \* history: URLs found as a link of a fetched page
  all_succeeded          \* history: every fetch_url so far gave a response

VARIABLES
  visited_lock,          \* the worker inside a `with visited_lock` block, or 0
  data_lock              \* the worker inside a `with data_lock` block, or 0

\* hku_tpg_scrapper.py, fetch_programme_highlights(driver, link, retries, backoff)
VARIABLES
  retries,               \* attempts allowed after the first one
  backoff,               \* backoff multiplier, in tenths of a second
  attempt,               \* the loop variable of the retry loop
  hl_pc,                 \* position in fetch_programme_highlights
  window_handles,        \* driver.window_handles: the open windows, oldest first
  current_window_handle, \* the window the driver is focused on
  original_window,       \* local of attempt_once
  exception,             \* the exception on its way out of attempt_once
  sleeps,                \* history: the arguments of the sleep calls
  attempts,              \* history: how each call of attempt_once ended
  highlights             \* what fetch_programme_highlights returned

highlightsv == <<retries, backoff, attempt, hl_pc, window_handles,
                 current_window_handle, original_window, exception, sleeps,
                 attempts, highlights>>

\* hku_tpg_scrapper.py, fetch_programmes(label, url, headless, fetch_details, ...)
VARIABLES
  fetch_details,         \* parameter: open the detail page of each programme
  max_details,           \* parameter: limit of detail pages, or no_limit
  fp_pc,                 \* position in fetch_programmes
  driver,                \* "None" or the driver create_driver returned
  quit_calls,            \* history: calls of driver.quit()
  programmes,            \* the rows collected, as <<link, listing fields filled>>
  seen_links,
  details_count,
  page_index,
  items_left,            \* items of the current page not yet iterated
  item,                  \* the item of the current iteration
  fp_exception,          \* the exception on its way out of the try block
  fp_result,             \* what fetch_programmes returned
  detail_fetches,        \* history: the links fetch_programme_highlights got
  skipped,               \* history: the items passed over by `continue`
  detail_fields,         \* duration, fees, start, deadline, description
  row_details,           \* the detail fields of the rows, in the order of programmes
  last_page,             \* the site: number of pages of the listing
  displayed,             \* the site: the listing page the browser shows
  next_control,          \* the pagination control found at lines 373-391
  pages_read,            \* history: the page shown each time the items were read
  caught                 \* history: the exception an except clause handled

detailv == <<detail_fields, row_details>>
pagev == <<displayed, next_control, pages_read>>
programmesv == <<fetch_details, max_details, fp_pc, driver, quit_calls, programmes,
                 seen_links, details_count, page_index, items_left, item,
                 fp_exception, fp_result, detail_fetches, skipped, detailv,
                 last_page, pagev, caught>>

\* src/base_scraper.py, BaseScraper.scrape_all_courses(delay)
VARIABLES
  sc_pc,                 \* position in scrape_all_courses
  course_urls,
  sc_i,                  \* URLs of course_urls the loop is done with
  courses,               \* the course of a URL is written as the URL
  success,               \* "unbound" before line 68 or 72 binds it
  error_message,
  sc_exception,          \* the exception raised inside the try block
  extracted              \* history: what extract_course_info returned, per call

scrapev == <<sc_pc, course_urls, sc_i, courses, success, error_message,
             sc_exception, extracted>>

\* main.py, main(), with DataExporter.export_all_formats
VARIABLES
  scrapers,              \* get_scrapers(): the scrapers, by university name
  output_format,         \* args.output_format
  mn_pc,                 \* position in main()
  mn_i,                  \* scrapers the loop is done with
  results,               \* <<university, success, number of courses>> each
  export_files,          \* keys of the dict export_files
  raised_scrapers,       \* history: positions of the scrapers that raised
  export_calls,          \* history: formats whose export was called
  export_failed          \* history: formats whose export raised

mainpyv == <<scrapers, output_format, mn_pc, mn_i, results, export_files,
             raised_scrapers, export_calls, export_failed>>

\* scapper.py, the sequential crawler(); max_crawl is its crawl limit
VARIABLES
  urls_to_visit,
  seq_pc,                \* position in crawler()
  seq_crawl_count,       \* the local crawl_count
  seq_current_url,       \* the local current_url
  seq_links_seen,        \* link elements of the page reached so far
  requested              \* history: the URLs requests.get sent a request for

seqv == <<urls_to_visit, seq_pc, seq_crawl_count, seq_current_url, seq_links_seen,
          requested>>

vars == <<prog, max_crawl, num_workers, hrefs, high_priority_queue, low_priority_queue,
          visited_urls, product_data, pc, current_url, from_queue, crawl_count,
          response, attempt_number, last_result, not_found_at_once, links_seen,
          absolute_url, products_seen, main_pc, threads, joined, exported,
          fetch_calls, visited_adds, offers, discovered, all_succeeded,
          visited_lock, data_lock, highlightsv, programmesv, scrapev, mainpyv,
          seqv>>

settings == <<prog, max_crawl, num_workers, hrefs>>
locks == <<visited_lock, data_lock>>
\* the state of the programs of the repository other than the two crawlers
programs == <<highlightsv, programmesv, scrapev, mainpyv, seqv>>
\* what no step of the crawler written without its locks changes
config == <<settings, locks, programs>>
queues == <<high_priority_queue, low_priority_queue>>
mainv == <<main_pc, threads, joined, exported>>
fetchv == <<response, attempt_number, last_result, not_found_at_once>>
iterv == <<current_url, from_queue, crawl_count>>
linkv == <<links_seen, absolute_url>>
workerv == <<iterv, fetchv, linkv, products_seen>>
hist == <<fetch_calls, visited_adds, offers, discovered, all_succeeded>>

NoUrl == <<>>

Count(q, url) == Cardinality({i \in 1..Len(q) : q[i] = url})

\* number of entries the two queues hold for a URL
Entries(url) == Count(high_priority_queue, url) + Count(low_priority_queue, url)

\* a URL that no worker has taken from a queue so far
NeverDequeued(url) ==
  url \notin visited_urls /\ \A w \in Workers : current_url[w] # url

\* template/scapper.py: absolute_url.startswith(target_url)
InRegion(p, url) == p = "msc" \/ StartsWith(url, target_url)

\* the frontier also refuses a URL that is already on a queue
MayEnqueue_dedup(p, url, visited) ==
  InRegion(p, url) /\ url \notin visited /\ Entries(url) = 0

\* the visited guard is lost
MayEnqueue_always(p, url, visited) == InRegion(p, url)

\* the visited test is inverted: only visited URLs are queued
MayEnqueue_inverted(p, url, visited) == InRegion(p, url) /\ url \in visited

\* the guard in front of the queue puts
MayEnqueue(p, url, visited) == InRegion(p, url) /\ url \notin visited

\* the visited check is lost: every dequeued URL is taken as new
AlreadyVisited_never(url, visited) == FALSE

\* the guard after a dequeue, evaluated under visited_lock
AlreadyVisited(url, visited) == url \in visited

\* the URLs of a site: the seed and what its links resolve to
SiteUrls(h) == {target_url} \cup {Absolute(url) : url \in h}

InitCrawler(p, m, n, h) ==
  /\ prog = p
  /\ max_crawl = m
  /\ num_workers = n
  /\ hrefs = h
  /\ high_priority_queue = <<target_url>>
  /\ low_priority_queue = <<target_url>>
  /\ visited_urls = {}
  /\ product_data = <<>>
  /\ pc = [w \in Workers |-> "unstarted"]
  /\ current_url = [w \in Workers |-> NoUrl]
  /\ from_queue = [w \in Workers |-> "none"]
  /\ crawl_count = [w \in Workers |-> 0]
  /\ response = [w \in Workers |-> "unset"]
  /\ attempt_number = [w \in Workers |-> 0]
  /\ last_result = [w \in Workers |-> "none"]
  /\ not_found_at_once = [w \in Workers |-> FALSE]
  /\ links_seen = [w \in Workers |-> 0]
  /\ absolute_url = [w \in Workers |-> NoUrl]
  /\ products_seen = [w \in Workers |-> 0]
  /\ main_pc = "start"
  /\ threads = 0
  /\ joined = 0
  /\ exported = <<>>
  /\ fetch_calls = [u \in SiteUrls(h) |-> 0]
  /\ visited_adds = [u \in SiteUrls(h) |-> 0]
  /\ offers = [u \in SiteUrls(h) |-> IF u = target_url THEN 2 ELSE 0]
  /\ discovered = {}
  /\ all_succeeded = TRUE
  /\ visited_lock = 0
  /\ data_lock = 0

\* fetch_programme_highlights is not running
NoHighlights ==
  /\ retries = 0
  /\ backoff = 0
  /\ attempt = 0
  /\ hl_pc = "idle"
  /\ window_handles = <<>>
  /\ current_window_handle = 0
  /\ original_window = 0
  /\ exception = "none"
  /\ sleeps = <<>>
  /\ attempts = <<>>
  /\ highlights = "unset"

NoItem == <<"", FALSE>>

\* max_details = None
no_limit == 0 - 1

\* the locals of fetch_programmes before line 286 sets them
NoProgrammes ==
  /\ driver = "None"
  /\ quit_calls = 0
  /\ programmes = <<>>
  /\ seen_links = {}
  /\ details_count = 0
  /\ page_index = 0
  /\ items_left = 0
  /\ item = NoItem
  /\ fp_exception = "none"
  /\ fp_result = "unset"
  /\ detail_fetches = <<>>
  /\ skipped = {}
  /\ detail_fields = ""
  /\ row_details = <<>>
  /\ displayed = 0
  /\ next_control = "unseen"
  /\ pages_read = <<>>
  /\ caught = "none"

\* fetch_programmes is not running
NoFetchProgrammes ==
  /\ fetch_details = FALSE
  /\ max_details = no_limit
  /\ last_page = 0
  /\ fp_pc = "idle"
  /\ NoProgrammes

\* the locals of scrape_all_courses at line 53
NoCourses ==
  /\ course_urls = <<>>
  /\ sc_i = 0
  /\ courses = <<>>
  /\ success = "unbound"
  /\ error_message = "None"
  /\ sc_exception = "none"
  /\ extracted = <<>>

\* scrape_all_courses is not running
NoScrape == sc_pc = "idle" /\ NoCourses

\* the locals of main() at line 107
NoResults ==
  /\ mn_i = 0
  /\ results = <<>>
  /\ export_files = {}
  /\ raised_scrapers = {}
  /\ export_calls = <<>>
  /\ export_failed = {}

\* main() is not running
NoMain ==
  /\ scrapers = <<>>
  /\ output_format = "all"
  /\ mn_pc = "idle"
  /\ NoResults

\* the locals of the sequential crawler() at line 18
NoRequests ==
  /\ seq_crawl_count = 0
  /\ seq_current_url = NoUrl
  /\ seq_links_seen = 0
  /\ requested = <<>>

\* the sequential crawler is not running
NoSequential ==
  /\ urls_to_visit = <<>>
  /\ seq_pc = "idle"
  /\ NoRequests

\* the other programs of the repository are not running
NoScrapers == NoHighlights /\ NoFetchProgrammes /\ NoScrape /\ NoMain

\* a crawl of the site whose pages carry the links h
InitSite(p, m, n, h) == InitCrawler(p, m, n, h) /\ NoScrapers /\ NoSequential

\* a crawl of the site whose pages carry the links of HREFS
InitCrawl(p, m, n) == InitSite(p, m, n, HREFS)

\* msc_scapper.py: max_crawl = math.inf, num_workers threads
Init == InitCrawl("msc", math_inf, NumWorkers)

\* template/scapper.py with a finite crawl limit
InitTpl == \E m \in 1..MaxBudget : InitCrawl("tpl", m, NumWorkers)

\* msc_scapper.py run with a single worker thread
InitOne == InitCrawl("msc", math_inf, 1)

\* msc_scapper.py run with two worker threads on a site with two product pages
InitSink == InitSite("msc", math_inf, 2, PAGE_HREFS)

(***************************************************************************)
(* The main thread.                                                        *)
(***************************************************************************)
\* thread = threading.Thread(target=crawler, daemon=True); thread.start()
StartThread ==
  /\ main_pc = "start"
  /\ threads' = threads + 1
  /\ pc' = [pc EXCEPT ![threads + 1] = "while_high"]
  /\ main_pc' = IF threads + 1 = num_workers THEN "join" ELSE "start"
  /\ UNCHANGED <<config, queues, visited_urls, product_data, workerv, joined,
                 exported, hist>>

\* join() returns at once, whether or not the thread has ended
JoinThread_nowait ==
  /\ main_pc = "join"
  /\ joined' = joined + 1
  /\ main_pc' = IF joined + 1 = num_workers THEN "export" ELSE "join"
  /\ UNCHANGED <<config, queues, visited_urls, product_data, pc, workerv,
                 threads, exported, hist>>

\* thread.join(): returns once the thread has ended
JoinThread ==
  /\ main_pc = "join"
  /\ pc[joined + 1] \in {"done", "dead"}
  /\ joined' = joined + 1
  /\ main_pc' = IF joined + 1 = num_workers THEN "export" ELSE "join"
  /\ UNCHANGED <<config, queues, visited_urls, product_data, pc, workerv,
                 threads, exported, hist>>

\* writer.writerows(product_data)
Export ==
  /\ main_pc = "export"
  /\ exported' = product_data
  /\ main_pc' = "done"
  /\ UNCHANGED <<config, queues, visited_urls, product_data, pc, workerv,
                 threads, joined, hist>>

(***************************************************************************)
(* crawler(): the loop test and the dequeue.                               *)
(***************************************************************************)
\* while (not high_priority_queue.empty() ...
WhileHigh(w) ==
  /\ pc[w] = "while_high"
  /\ pc' = [pc EXCEPT ![w] =
              IF high_priority_queue # <<>>
              THEN IF BelowMax(crawl_count[w], max_crawl) THEN "if_high" ELSE "done"
              ELSE "while_low"]
  /\ UNCHANGED <<config, queues, visited_urls, product_data, workerv, mainv, hist>>

\* ... or not low_priority_queue.empty()) and crawl_count < max_crawl
WhileLow(w) ==
  /\ pc[w] = "while_low"
  /\ pc' = [pc EXCEPT ![w] =
              IF low_priority_queue # <<>> /\ BelowMax(crawl_count[w], max_crawl)
              THEN "if_high" ELSE "done"]
  /\ UNCHANGED <<config, queues, visited_urls, product_data, workerv, mainv, hist>>

\* if not high_priority_queue.empty()
IfHigh(w) ==
  /\ pc[w] = "if_high"
  /\ pc' = [pc EXCEPT ![w] = IF high_priority_queue # <<>> THEN "get_high" ELSE "if_low"]
  /\ UNCHANGED <<config, queues, visited_urls, product_data, workerv, mainv, hist>>

\* elif not low_priority_queue.empty() ... else break
IfLow(w) ==
  /\ pc[w] = "if_low"
  /\ pc' = [pc EXCEPT ![w] = IF low_priority_queue # <<>> THEN "get_low" ELSE "done"]
  /\ UNCHANGED <<config, queues, visited_urls, product_data, workerv, mainv, hist>>

\* current_url = high_priority_queue.get(): blocks while the queue is empty
GetHigh(w) ==
  /\ pc[w] = "get_high"
  /\ high_priority_queue # <<>>
  /\ current_url' = [current_url EXCEPT ![w] = Head(high_priority_queue)]
  /\ from_queue' = [from_queue EXCEPT ![w] = "high"]
  /\ high_priority_queue' = Tail(high_priority_queue)
  /\ pc' = [pc EXCEPT ![w] = "check_visited"]
  /\ offers' = [offers EXCEPT ![Head(high_priority_queue)] = 0]
  /\ UNCHANGED <<config, low_priority_queue, visited_urls, product_data,
                 crawl_count, fetchv, linkv, products_seen, mainv, fetch_calls,
                 visited_adds, discovered, all_succeeded>>

\* current_url = low_priority_queue.get(): blocks while the queue is empty
GetLow(w) ==
  /\ pc[w] = "get_low"
  /\ low_priority_queue # <<>>
  /\ current_url' = [current_url EXCEPT ![w] = Head(low_priority_queue)]
  /\ from_queue' = [from_queue EXCEPT ![w] = "low"]
  /\ low_priority_queue' = Tail(low_priority_queue)
  /\ pc' = [pc EXCEPT ![w] = "check_visited"]
  /\ offers' = [offers EXCEPT ![Head(low_priority_queue)] = 0]
  /\ UNCHANGED <<config, high_priority_queue, visited_urls, product_data,
                 crawl_count, fetchv, linkv, products_seen, mainv, fetch_calls,
                 visited_adds, discovered, all_succeeded>>

(***************************************************************************)
(* crawler(): the visited check, run under visited_lock.                   *)
(***************************************************************************)
\* if current_url in visited_urls: continue / visited_urls.add(current_url)
VisitedBlock(w) ==
  /\ pc[w] = "check_visited"
  /\ IF AlreadyVisited(current_url[w], visited_urls)
     THEN /\ pc' = [pc EXCEPT ![w] = "while_high"]
          /\ current_url' = [current_url EXCEPT ![w] = NoUrl]
          /\ from_queue' = [from_queue EXCEPT ![w] = "none"]
          /\ UNCHANGED <<visited_urls, visited_adds>>
     ELSE /\ visited_urls' = visited_urls \cup {current_url[w]}
          /\ visited_adds' = [visited_adds EXCEPT ![current_url[w]] = @ + 1]
          /\ pc' = [pc EXCEPT ![w] = "fetch_url"]
          /\ UNCHANGED <<current_url, from_queue>>
  /\ UNCHANGED <<settings, programs, queues, product_data, crawl_count, fetchv,
                 linkv, products_seen, mainv, fetch_calls, offers, discovered,
                 all_succeeded>>

\* the block taken as one step, the lock free before and after it
CheckVisited(w) == VisitedBlock(w) /\ UNCHANGED locks

(***************************************************************************)
(* crawler(): response = fetch_url(current_url).                           *)
(***************************************************************************)
\* fetch_url also counts the URL against the crawl limit
Fetch_counts(w) ==
  /\ pc[w] = "fetch_url"
  /\ \E call \in {<<FetchUrl(prog, server, 1), RequestResult(server, 1)>> :
                        server \in SERVERS} :
       /\ response' = [response EXCEPT ![w] = call[1].response]
       /\ attempt_number' = [attempt_number EXCEPT ![w] = call[1].attempt_number]
       /\ last_result' = [last_result EXCEPT ![w] = call[1].result]
       /\ not_found_at_once' = [not_found_at_once EXCEPT ![w] = call[2] \in NOT_FOUND]
  /\ fetch_calls' = [fetch_calls EXCEPT ![current_url[w]] = @ + 1]
  /\ crawl_count' = [crawl_count EXCEPT ![w] = @ + 1]
  /\ pc' = [pc EXCEPT ![w] = "fetched"]
  /\ UNCHANGED <<config, queues, visited_urls, product_data, current_url,
                 from_queue, linkv, products_seen, mainv, visited_adds, offers,
                 discovered, all_succeeded>>

Fetch(w) ==
  /\ pc[w] = "fetch_url"
  /\ \E call \in {<<FetchUrl(prog, server, 1), RequestResult(server, 1)>> :
                        server \in SERVERS} :
       /\ response' = [response EXCEPT ![w] = call[1].response]
       /\ attempt_number' = [attempt_number EXCEPT ![w] = call[1].attempt_number]
       /\ last_result' = [last_result EXCEPT ![w] = call[1].result]
       /\ not_found_at_once' = [not_found_at_once EXCEPT ![w] = call[2] \in NOT_FOUND]
  /\ fetch_calls' = [fetch_calls EXCEPT ![current_url[w]] = @ + 1]
  /\ pc' = [pc EXCEPT ![w] = "fetched"]
  /\ UNCHANGED <<config, queues, visited_urls, product_data, iterv, linkv,
                 products_seen, mainv, visited_adds, offers, discovered, all_succeeded>>

\* the iteration is over: crawl_count += 1 and back to the loop test
EndIteration(w) ==
  /\ crawl_count' = [crawl_count EXCEPT ![w] = @ + 1]
  /\ current_url' = [current_url EXCEPT ![w] = NoUrl]
  /\ from_queue' = [from_queue EXCEPT ![w] = "none"]
  /\ products_seen' = [products_seen EXCEPT ![w] = 0]
  /\ pc' = [pc EXCEPT ![w] = "while_high"]

\* the product containers are read on every page, whatever its URL
ExtractContent_every_page(url) == TRUE

\* if url_pattern.search(current_url): only then are the products read
ExtractContent(url) == url_pattern_search(url)

\* for product in product_containers, after `seen` of them: the page has no
\* further product, or one whose record is built and waits to be appended, or
\* one that lacks an expected element (the subscript of None raises)
AfterProducts(w, seen) ==
  \/ EndIteration(w)
  \/ /\ ExtractContent(current_url[w])
     /\ seen < MaxProducts
     /\ products_seen' = [products_seen EXCEPT ![w] = seen + 1]
     /\ pc' = [pc EXCEPT ![w] = "append"]
     /\ UNCHANGED iterv
  \/ /\ ExtractContent(current_url[w])
     /\ seen < MaxProducts
     /\ products_seen' = [products_seen EXCEPT ![w] = seen + 1]
     /\ pc' = [pc EXCEPT ![w] = "dead"]
     /\ UNCHANGED iterv

\* for link_element in soup.find_all("a", href=True), after `seen` of them:
\* skipped links are passed over, the next other link is resolved and waits
\* for visited_lock, and after the last link the records are extracted
AfterLinks(w, seen) ==
  \/ \E n \in (seen + 1)..MaxLinks, url \in hrefs :
       /\ ~SkipLink(prog, url)
       /\ n > seen + 1 => \E s \in hrefs : SkipLink(prog, s)
       /\ links_seen' = [links_seen EXCEPT ![w] = n]
       /\ absolute_url' = [absolute_url EXCEPT ![w] = Absolute(url)]
       /\ pc' = [pc EXCEPT ![w] = "push"]
       /\ UNCHANGED <<iterv, products_seen>>
  \/ /\ links_seen' = [links_seen EXCEPT ![w] = 0]
     /\ absolute_url' = [absolute_url EXCEPT ![w] = NoUrl]
     /\ AfterProducts(w, 0)

\* no except clause and no None test: the outcome ends the thread
AfterFailedFetch_uncaught(p) == "dead"

\* where crawler() goes when fetch_url gave no response: msc_scapper.py
\* catches RetryError and tests for None, then continues; template/scapper.py
\* has no try around the call, so the exception ends the thread
AfterFailedFetch(p) == IF p = "msc" THEN "while_high" ELSE "dead"

\* what crawler() does with the value or exception of fetch_url
Fetched(w) ==
  /\ pc[w] = "fetched"
  /\ all_succeeded' = (all_succeeded /\ response[w] = "Response")
  /\ response' = [response EXCEPT ![w] = "unset"]
  /\ attempt_number' = [attempt_number EXCEPT ![w] = 0]
  /\ last_result' = [last_result EXCEPT ![w] = "none"]
  /\ not_found_at_once' = [not_found_at_once EXCEPT ![w] = FALSE]
  /\ IF response[w] = "Response"
     THEN AfterLinks(w, 0)
     ELSE /\ pc' = [pc EXCEPT ![w] = AfterFailedFetch(prog)]
          /\ current_url' = [current_url EXCEPT ![w] = NoUrl]
          /\ from_queue' = [from_queue EXCEPT ![w] = "none"]
          /\ UNCHANGED <<crawl_count, linkv, products_seen>>
  /\ UNCHANGED <<config, queues, visited_urls, product_data, mainv, fetch_calls,
                 visited_adds, offers, discovered>>

(***************************************************************************)
(* crawler(): one link of the page, run under visited_lock.                *)
(***************************************************************************)
\* if absolute_url not in visited_urls: put it on the queue of its tier
PushBlock(w) ==
  /\ pc[w] = "push"
  /\ LET url == absolute_url[w]
     IN /\ IF MayEnqueue(prog, url, visited_urls)
           THEN IF url_pattern_search(url)
                THEN /\ high_priority_queue' = Append(high_priority_queue, url)
                     /\ UNCHANGED low_priority_queue
                ELSE /\ low_priority_queue' = Append(low_priority_queue, url)
                     /\ UNCHANGED high_priority_queue
           ELSE UNCHANGED queues
        /\ offers' = [offers EXCEPT ![url] =
                        IF InRegion(prog, url) /\ NeverDequeued(url)
                        THEN @ + 1 ELSE @]
        /\ discovered' = discovered \cup {url}
  /\ AfterLinks(w, links_seen[w])
  /\ UNCHANGED <<settings, programs, visited_urls, product_data, fetchv, mainv,
                 fetch_calls, visited_adds, all_succeeded>>

\* the block taken as one step, the lock free before and after it
Push(w) == PushBlock(w) /\ UNCHANGED locks

(***************************************************************************)
(* crawler(): one record of the page, appended under data_lock.            *)
(***************************************************************************)
\* the list is rebound to the new record instead of being extended, outside
\* data_lock: the records stored before are lost
AppendProduct_overwrite(w) ==
  /\ pc[w] = "append"
  /\ product_data' = <<<<current_url[w], products_seen[w]>>>>
  /\ AfterProducts(w, products_seen[w])
  /\ UNCHANGED <<config, queues, visited_urls, fetchv, linkv, mainv, hist>>

\* product_data.append(data)
DataBlock(w) ==
  /\ pc[w] = "append"
  /\ product_data' = Append(product_data, <<current_url[w], products_seen[w]>>)
  /\ AfterProducts(w, products_seen[w])
  /\ UNCHANGED <<settings, programs, queues, visited_urls, fetchv, linkv, mainv,
                 hist>>

\* with data_lock: the block taken as one step
AppendProduct(w) == DataBlock(w) /\ UNCHANGED locks

Worker(w) ==
  \/ WhileHigh(w)
  \/ WhileLow(w)
  \/ IfHigh(w)
  \/ IfLow(w)
  \/ GetHigh(w)
  \/ GetLow(w)
  \/ CheckVisited(w)
  \/ Fetch(w)
  \/ Fetched(w)
  \/ Push(w)
  \/ AppendProduct(w)

Next ==
  \/ StartThread
  \/ JoinThread
  \/ Export
  \/ \E w \in Workers : Worker(w)

Spec == Init /\ [][Next]_vars

SpecTpl == InitTpl /\ [][Next]_vars

SpecOne == InitOne /\ [][Next]_vars

SpecSink == InitSink /\ [][Next]_vars

(***************************************************************************)
(* Properties.                                                             *)
(***************************************************************************)
Processing == {"fetch_url", "fetched", "push", "append"}

\* C1: whatever the interleaving, and however often a URL was put on the
\* queues, fetch_url is called at most once for it and it is added to
\* visited_urls exactly once (a URL is in visited_urls exactly when it was
\* added once); no two workers ever process the same URL, every further
\* dequeue of it ends at the check made under visited_lock.
C1_FetchedOnce ==
  /\ \A u \in URLS :
       /\ fetch_calls[u] <= 1
       /\ visited_adds[u] <= 1
       /\ u \in visited_urls <=> visited_adds[u] = 1
       /\ fetch_calls[u] <= visited_adds[u]
  /\ \A v, w \in Workers :
       v # w /\ pc[v] \in Processing /\ pc[w] \in Processing
          => current_url[v] # current_url[w]

\* a link (not the seed) that was queued more than once has been fetched
\* once, and the worker that took its second entry is about to drop it
C1_Witness ==
  \E u \in URLS \ {target_url}, w \in Workers :
     /\ pc[w] = "check_visited"
     /\ current_url[w] = u
     /\ u \in visited_urls
     /\ fetch_calls[u] = 1

Blocked(w) ==
  \/ pc[w] = "get_high" /\ high_priority_queue = <<>>
  \/ pc[w] = "get_low" /\ low_priority_queue = <<>>

\* C2: every run reaches the end state (all workers out of the loop, all
\* joins returned, export run).  On finite runs: as long as the export has
\* not run some thread can take a step, so no worker is left blocked in the
\* loop with nobody to wake it.
C2_Terminates == main_pc # "done" => ENABLED Next

Quiescent ==
  \A w \in Workers : pc[w] \in {"unstarted", "while_high", "while_low", "done", "dead"}

NoUnvisitedQueued ==
  \A u \in URLS : Entries(u) > 0 => u \in visited_urls

\* C3: when every fetch so far has succeeded, no worker is inside a loop
\* iteration and the queues hold no unvisited URL, then the seed and every
\* URL found as a link of a fetched page (the URLs reachable from the seed)
\* are in visited_urls and have been fetched exactly once.
C3_Coverage ==
  Quiescent /\ NoUnvisitedQueued /\ all_succeeded
     => \A u \in {target_url} \cup discovered :
           u \in visited_urls /\ fetch_calls[u] = 1

\* all workers have left the loop after a crawl without failures that found
\* both other URLs
C3_Witness ==
  /\ \A w \in Workers : pc[w] = "done"
  /\ all_succeeded
  /\ discovered = {page_url, item_url}
  /\ visited_urls = URLS

\* C4: whenever a worker's Queue.get() returns while both queues are
\* non-empty, the URL comes from high_priority_queue: no get on
\* low_priority_queue returns while high_priority_queue is non-empty.
C4_PriorityOnGet ==
  [][\A w \in Workers :
        pc[w] = "get_low" /\ pc'[w] = "check_visited"
           => high_priority_queue = <<>>]_vars

RECURSIVE Sum(_, _)
Sum(f, S) == IF S = {} THEN 0
             ELSE LET x == CHOOSE y \in S : TRUE IN f[x] + Sum(f, S \ {x})

\* URLs for which fetch_url has been called
Attempted == Sum(fetch_calls, URLS)

\* C6: with max_crawl = k, once k URLs have been attempted in total no worker
\* passes the loop test to dequeue further work, and fetch_url is called for
\* at most k + num_workers URLs over the run.
C6_Budget ==
  /\ [](Attempted <= max_crawl + num_workers)
  /\ [][\A w \in Workers :
           Attempted >= max_crawl /\ pc[w] \in {"while_high", "while_low"}
              => pc'[w] # "if_high"]_vars

\* C7: a fetch_url whose every request ended in a retryable failure has made
\* exactly 4 requests and ends in RetryError (and only such a call does);
\* crawler() then returns to the loop test with the queues, visited_urls,
\* product_data and crawl_count untouched and with no further call of
\* fetch_url for that URL.
C7_RetryExhaustion ==
  [][\A w \in Workers :
        pc[w] = "fetched"
           => /\ attempt_number[w] \in 1..4
              /\ last_result[w] \in ERROR_RESULTS
                   <=> attempt_number[w] = 4 /\ response[w] = "RetryError"
              /\ response[w] = "RetryError" =>
                   /\ fetch_calls[current_url[w]] = 1
                   /\ pc'[w] # "fetched" =>
                        /\ pc'[w] = "while_high"
                        /\ UNCHANGED <<queues, visited_urls, product_data,
                                       crawl_count, fetch_calls>>]_vars

\* a fetch_url that gave up after four failed requests
C7_Witness ==
  \E w \in Workers :
     /\ pc[w] = "fetched"
     /\ response[w] = "RetryError"
     /\ attempt_number[w] = 4
     /\ last_result[w] \in ERROR_RESULTS

\* C8: a fetch_url whose request is answered 404 (as a status or as a raised
\* HTTPError) returns None without another request, so a URL that answers
\* 404 at once costs exactly 1 request; crawler() then returns to the loop
\* test without parsing: nothing is queued, recorded or counted.
C8_NotFound ==
  [][\A w \in Workers :
        pc[w] = "fetched"
           => /\ last_result[w] \in NOT_FOUND => response[w] = "None"
              /\ not_found_at_once[w] =>
                   attempt_number[w] = 1 /\ response[w] = "None"
              /\ response[w] = "None" =>
                   /\ last_result[w] \in NOT_FOUND
                   /\ pc'[w] # "fetched" =>
                        /\ pc'[w] = "while_high"
                        /\ UNCHANGED <<queues, visited_urls, product_data,
                                       crawl_count, discovered>>]_vars

\* a fetch_url that returned None after a single request answered 404
C8_Witness ==
  \E w \in Workers :
     /\ pc[w] = "fetched"
     /\ not_found_at_once[w]
     /\ response[w] = "None"
     /\ attempt_number[w] = 1

QueueHolds(q, S) == \A i \in 1..Len(q) : q[i] \in S

\* C9, one worker: links matching /page/<digits>/ go on high_priority_queue
\* and the others on low_priority_queue; no URL taken from
\* low_priority_queue is fetched while high_priority_queue holds an unvisited
\* URL; and when the item link is fetched, the page link, if some page showed
\* it by then, has been fetched before.
C9_TierOrder ==
  /\ QueueHolds(high_priority_queue, {target_url, page_url})
  /\ QueueHolds(low_priority_queue, {target_url, item_url})
  /\ \A w \in Workers :
       pc[w] \in {"fetch_url", "fetched"}
          => /\ from_queue[w] = "low" => QueueHolds(high_priority_queue, visited_urls)
             /\ current_url[w] = item_url /\ page_url \in discovered
                  => fetch_calls[page_url] = 1

\* the item link is being fetched after the page link that the seed page
\* showed as well
C9_Witness ==
  \E w \in Workers :
     /\ pc[w] = "fetch_url"
     /\ current_url[w] = item_url
     /\ from_queue[w] = "low"
     /\ discovered = {page_url, item_url}
     /\ fetch_calls[page_url] = 1

C11_NonBlockingPop == \A w \in Workers : ~Blocked(w)

\* a worker between dequeuing a URL and the end of the pushes of its page
InFlight(w) == pc[w] \in {"check_visited", "fetch_url", "fetched", "push"}

\* C12: a worker leaves its loop for lack of work only when both queues are
\* empty and no other worker is between the dequeue of a URL and the end of
\* the pushes of that page's links.
C12_ExitOnlyWhenDrained ==
  [][\A w \in Workers :
        pc[w] \in {"while_low", "if_low"} /\ pc'[w] = "done"
           => /\ high_priority_queue = <<>>
              /\ low_priority_queue = <<>>
              /\ \A v \in Workers \ {w} : ~InFlight(v)]_vars

\* C13: a URL is in visited_urls only after its fetch has completed: no URL
\* is marked visited while fetch_url has not yet been called and returned
\* for it.
C13_VisitedAfterFetch ==
  \A u \in URLS : u \in visited_urls => fetch_calls[u] >= 1

C15_ExtractionIsolated == \A w \in Workers : pc[w] # "dead"

\* C16: the export begins only after every worker thread has ended (all
\* joins returned), so from then on no worker appends, dequeues or pushes,
\* and the rows exported are the final content of product_data.
C16_ExportAfterJoin ==
  /\ main_pc \in {"export", "done"}
        => /\ joined = num_workers
           /\ \A w \in 1..num_workers : pc[w] \in {"done", "dead"}
  /\ main_pc = "done" => exported = product_data

\* the export has run after a crawl that extracted a record
C16_Witness ==
  /\ main_pc = "done"
  /\ exported # <<>>
  /\ exported = product_data

\* the record a worker has built and is about to append
Record(w) == <<current_url[w], products_seen[w]>>

Stored(record) == \E i \in 1..Len(product_data) : product_data[i] = record

\* C17: for every interleaving of the workers, product_data holds each
\* record extracted from a page exactly once: no record is stored twice,
\* the records a worker has extracted from its page so far are all stored
\* and the one it holds is not yet; and product_data is in the order in
\* which the appends completed: a step changes product_data only by putting
\* the record of the worker that took it at the end, and every worker that
\* leaves its append has put its record there.
C17_SinkIntegrity ==
  /\ [](\A i, j \in 1..Len(product_data) :
           i # j => product_data[i] # product_data[j])
  /\ [](\A w \in Workers :
           pc[w] = "append"
              => /\ ~Stored(Record(w))
                 /\ \A k \in 1..(products_seen[w] - 1) : Stored(<<current_url[w], k>>))
  /\ [][\A w \in Workers :
           /\ pc[w] = "append" /\ <<pc[w], products_seen[w]>>' # <<pc[w], products_seen[w]>>
                => product_data' = Append(product_data, Record(w))
           /\ product_data' # product_data
                => \E v \in Workers :
                      /\ pc[v] = "append"
                      /\ product_data' = Append(product_data, Record(v))]_vars

\* two workers hold a record each, of two different pages, and both are
\* about to append it
C17_Witness ==
  \E v, w \in Workers :
     /\ pc[v] = "append"
     /\ pc[w] = "append"
     /\ current_url[v] = page_url
     /\ current_url[w] = page1_url

\* C18: every URL put on high_priority_queue or low_priority_queue has
\* target_url as a prefix, and no URL outside that region is fetched.
C18_BoundedRegion ==
  /\ \A i \in 1..Len(high_priority_queue) :
        StartsWith(high_priority_queue[i], target_url)
  /\ \A i \in 1..Len(low_priority_queue) :
        StartsWith(low_priority_queue[i], target_url)
  /\ \A u \in URLS : fetch_calls[u] > 0 => StartsWith(u, target_url)

\* C19: at the end of the run every URL for which a fetch was attempted is
\* counted: the counters the crawl keeps (crawl_count of each worker) add
\* up to the number of URLs attempted.
C19_Accounting ==
  main_pc = "done" => Sum(crawl_count, Workers) = Attempted

Min(a, b) == IF a <= b THEN a ELSE b

\* C20: a call of fetch_url, whatever its outcome, leaves visited_urls, both
\* queues, product_data and every worker's crawl_count unchanged; and it
\* makes one request per attempt: against a server that fails `fails` times
\* it ends after fails + 1 requests, or after stop_after_attempt of them,
\* with the result of the last one.
C20_FetchFrame ==
  [][\A w \in Workers :
        pc[w] = "fetch_url" /\ pc'[w] = "fetched"
           => /\ UNCHANGED <<visited_urls, high_priority_queue, low_priority_queue,
                             product_data, crawl_count>>
              /\ response'[w] \in {"Response", "None", "RetryError"}
              /\ \E server \in SERVERS :
                    /\ attempt_number'[w] \in {server.fails + 1, stop_after_attempt}
                    /\ attempt_number'[w] <= server.fails + 1
                    /\ last_result'[w] = RequestResult(server, attempt_number'[w])]_vars

\* a fetch_url that returned a response at its third request
C20_Witness ==
  \E w \in Workers :
     /\ pc[w] = "fetched"
     /\ response[w] = "Response"
     /\ attempt_number[w] = 3

(***************************************************************************)
(* msc_scapper.py with its two locks written out: a `with` statement is    *)
(* one step that acquires the lock and one step that runs the block and    *)
(* releases it on the way out, by `continue` as well as by falling through.*)
(***************************************************************************)
\* the fetch is written inside the block: the worker reaches fetch_url with
\* visited_lock still held
LeavingVisitedBlock_fetch_inside(w) == w

\* who holds visited_lock when a worker leaves the block of lines 102-110
LeavingVisitedBlock(w) == 0

\* with visited_lock: / with data_lock: threading.Lock is taken when free
AcquireVisitedLock(w) ==
  /\ pc[w] \in {"check_visited", "push"}
  /\ visited_lock = 0
  /\ visited_lock' = w
  /\ UNCHANGED <<settings, programs, data_lock, queues, visited_urls,
                 product_data, pc, workerv, mainv, hist>>

AcquireDataLock(w) ==
  /\ pc[w] = "append"
  /\ data_lock = 0
  /\ data_lock' = w
  /\ UNCHANGED <<settings, programs, visited_lock, queues, visited_urls,
                 product_data, pc, workerv, mainv, hist>>

LockedCheckVisited(w) ==
  /\ visited_lock = w
  /\ VisitedBlock(w)
  /\ visited_lock' = LeavingVisitedBlock(w)
  /\ UNCHANGED data_lock

LockedPush(w) ==
  /\ visited_lock = w
  /\ PushBlock(w)
  /\ visited_lock' = 0
  /\ UNCHANGED data_lock

LockedAppendProduct(w) ==
  /\ data_lock = w
  /\ DataBlock(w)
  /\ data_lock' = 0
  /\ UNCHANGED visited_lock

LockingWorker(w) ==
  \/ WhileHigh(w)
  \/ WhileLow(w)
  \/ IfHigh(w)
  \/ IfLow(w)
  \/ GetHigh(w)
  \/ GetLow(w)
  \/ AcquireVisitedLock(w)
  \/ LockedCheckVisited(w)
  \/ Fetch(w)
  \/ Fetched(w)
  \/ LockedPush(w)
  \/ AcquireDataLock(w)
  \/ LockedAppendProduct(w)

NextLock ==
  \/ StartThread
  \/ JoinThread
  \/ Export
  \/ \E w \in Workers : LockingWorker(w)

\* msc_scapper.py run with two worker threads
InitLock == InitSite("msc", math_inf, 2, HREFS)

SpecLock == InitLock /\ [][NextLock]_vars

\* C21: a worker inside fetch_url, or handling what it returned or raised,
\* holds neither visited_lock nor data_lock; whoever holds a lock is inside
\* the block of that lock, so no worker waits for a lock on a fetching one.
C21_FetchOutsideLocks ==
  /\ \A w \in Workers :
       pc[w] \in {"fetch_url", "fetched"} => visited_lock # w /\ data_lock # w
  /\ visited_lock # 0 => pc[visited_lock] \in {"check_visited", "push"}
  /\ data_lock # 0 => pc[data_lock] = "append"

\* one worker is about to fetch while another is inside a visited_lock block
\* and products of an earlier page are stored
C21_Witness ==
  \E w, v \in Workers :
    /\ w # v
    /\ pc[w] = "fetch_url"
    /\ visited_lock = v
    /\ pc[v] = "push"
    /\ product_data # <<>>

(***************************************************************************)
(* hku_tpg_scrapper.py: fetch_programme_highlights.  The driver is the     *)
(* sequence of its open windows and the window it is focused on; a driver  *)
(* command either does what it is for or raises.  Delays are in tenths of  *)
(* a second.                                                               *)
(***************************************************************************)
MaxRetries == 2      \* largest value of the parameter retries

backoff_default == 15

BACKOFFS == {0, 10, backoff_default}

\* the window fetch_programmes loaded the listing in
listing_window == 1

\* the state of the two crawlers
crawlv == <<queues, visited_urls, product_data, pc, workerv, mainv, hist>>
crawler == <<settings, locks, crawlv>>
\* what no step of fetch_programme_highlights changes
beside_highlights == <<crawler, programmesv, scrapev, mainpyv, seqv>>

\* selenium.common.exceptions: every class derives from WebDriverException
SELENIUM_EXCEPTIONS == {"TimeoutException", "NoSuchWindowException", "WebDriverException"}

\* the handler for WebDriverException is lost: only timeouts are caught
Caught_timeout_only(e) == e = "TimeoutException"

\* except TimeoutException: ... except WebDriverException as e: ...
Caught(e) == e = "TimeoutException" \/ e \in SELENIUM_EXCEPTIONS

\* the delay does not grow with the attempt
Delay_constant(b, a) == b

\* sleep(backoff * (attempt + 1))
Delay(b, a) == b * (a + 1)

Open(h) == \E i \in 1..Len(h) : h[i] = current_window_handle

\* a handle no open window has
NewHandle(h) == IF h = <<>> THEN listing_window + 1 ELSE h[Len(h)] + 1

Without(h, x) == SelectSeq(h, LAMBDA y : y # x)

\* a driver command of the try block raises: the finally clause is next
Raise(e) ==
  /\ exception' = e
  /\ hl_pc' = "close"

InitHighlights ==
  /\ InitCrawler("hku_tpg", math_inf, 0, {})
  /\ NoFetchProgrammes
  /\ NoScrape
  /\ NoMain
  /\ NoSequential
  /\ retries \in 0..MaxRetries
  /\ backoff \in BACKOFFS
  /\ attempt = 0
  /\ hl_pc = "for"
  /\ window_handles = <<listing_window>>
  /\ current_window_handle = listing_window
  /\ original_window = 0
  /\ exception = "none"
  /\ sleeps = <<>>
  /\ attempts = <<>>
  /\ highlights = "unset"

\* for attempt in range(retries + 1): ... / after the loop: give up
ForAttempt ==
  /\ hl_pc = "for"
  /\ IF attempt < retries + 1
     THEN hl_pc' = "current_window_handle" /\ UNCHANGED highlights
     ELSE hl_pc' = "returned" /\ highlights' = "empty"
  /\ UNCHANGED <<retries, backoff, attempt, window_handles, current_window_handle,
                 original_window, exception, sleeps, attempts, beside_highlights>>

\* original_window = driver.current_window_handle, in front of the try: with
\* the focused window closed it raises NoSuchWindowException
CurrentWindowHandle ==
  /\ hl_pc = "current_window_handle"
  /\ IF Open(window_handles)
     THEN /\ original_window' = current_window_handle
          /\ hl_pc' = "window_open"
          /\ UNCHANGED exception
     ELSE /\ exception' = "NoSuchWindowException"
          /\ hl_pc' = "except"
          /\ UNCHANGED original_window
  /\ UNCHANGED <<retries, backoff, attempt, window_handles, current_window_handle,
                 sleeps, attempts, highlights, beside_highlights>>

\* driver.execute_script("window.open(arguments[0], '_blank');", link)
WindowOpen ==
  /\ hl_pc = "window_open"
  /\ \/ /\ window_handles' = Append(window_handles, NewHandle(window_handles))
        /\ hl_pc' = "switch_to"
        /\ UNCHANGED exception
     \/ /\ Raise("WebDriverException")
        /\ UNCHANGED window_handles
  /\ UNCHANGED <<retries, backoff, attempt, current_window_handle, original_window,
                 sleeps, attempts, highlights, beside_highlights>>

\* driver.switch_to.window(driver.window_handles[-1])
SwitchTo ==
  /\ hl_pc = "switch_to"
  /\ \/ /\ current_window_handle' = window_handles[Len(window_handles)]
        /\ hl_pc' = "wait"
        /\ UNCHANGED exception
     \/ /\ Raise("WebDriverException")
        /\ UNCHANGED current_window_handle
  /\ UNCHANGED <<retries, backoff, attempt, window_handles, original_window,
                 sleeps, attempts, highlights, beside_highlights>>

\* wait.until(EC.presence_of_element_located(...))
WaitUntil ==
  /\ hl_pc = "wait"
  /\ \/ hl_pc' = "collect" /\ UNCHANGED exception
     \/ Raise("TimeoutException")
  /\ UNCHANGED <<retries, backoff, attempt, window_handles, current_window_handle,
                 original_window, sleeps, attempts, highlights, beside_highlights>>

\* items = driver.find_elements(...) and the loop over the items
Collect ==
  /\ hl_pc = "collect"
  /\ \/ hl_pc' = "close" /\ UNCHANGED exception
     \/ Raise("WebDriverException")
  /\ UNCHANGED <<retries, backoff, attempt, window_handles, current_window_handle,
                 original_window, sleeps, attempts, highlights, beside_highlights>>

\* finally: with suppress(Exception): driver.close() -- the command closes
\* the window the driver is focused on
Close ==
  /\ hl_pc = "close"
  /\ window_handles' = Without(window_handles, current_window_handle)
  /\ hl_pc' = "switch_back"
  /\ UNCHANGED <<retries, backoff, attempt, current_window_handle, original_window,
                 exception, sleeps, attempts, highlights, beside_highlights>>

\* with suppress(Exception): driver.switch_to.window(original_window), then
\* the exception goes on to the retry loop, or attempt_once returns
SwitchBack ==
  /\ hl_pc = "switch_back"
  /\ current_window_handle' =
       IF \E i \in 1..Len(window_handles) : window_handles[i] = original_window
       THEN original_window ELSE current_window_handle
  /\ hl_pc' = IF exception = "none" THEN "return" ELSE "except"
  /\ UNCHANGED <<retries, backoff, attempt, window_handles, original_window,
                 exception, sleeps, attempts, highlights, beside_highlights>>

\* return attempt_once()
Return ==
  /\ hl_pc = "return"
  /\ attempts' = Append(attempts, "returned")
  /\ highlights' = "local_highlights"
  /\ hl_pc' = "returned"
  /\ UNCHANGED <<retries, backoff, attempt, window_handles, current_window_handle,
                 original_window, exception, sleeps, beside_highlights>>

\* the except clauses of the retry loop
Except ==
  /\ hl_pc = "except"
  /\ attempts' = Append(attempts, exception)
  /\ IF Caught(exception)
     THEN hl_pc' = "backoff" /\ exception' = "none"
     ELSE hl_pc' = "raised" /\ UNCHANGED exception
  /\ UNCHANGED <<retries, backoff, attempt, window_handles, current_window_handle,
                 original_window, sleeps, highlights, beside_highlights>>

\* if attempt < retries: sleep(backoff * (attempt + 1))
Backoff ==
  /\ hl_pc = "backoff"
  /\ sleeps' = IF attempt < retries THEN Append(sleeps, Delay(backoff, attempt))
               ELSE sleeps
  /\ attempt' = attempt + 1
  /\ hl_pc' = "for"
  /\ UNCHANGED <<retries, backoff, window_handles, current_window_handle,
                 original_window, exception, attempts, highlights, beside_highlights>>

NextHighlights ==
  \/ ForAttempt
  \/ CurrentWindowHandle
  \/ WindowOpen
  \/ SwitchTo
  \/ WaitUntil
  \/ Collect
  \/ Close
  \/ SwitchBack
  \/ Return
  \/ Except
  \/ Backoff

SpecHighlights == InitHighlights /\ [][NextHighlights]_vars

Failed(i) == attempts[i] \in SELENIUM_EXCEPTIONS

\* C22: fetch_programme_highlights calls attempt_once at most retries + 1
\* times; it returns the result of the first call that does not raise and
\* makes no call after it; when every call raised TimeoutException or
\* WebDriverException it returns the dict of empty fields; it never lets one
\* of these exceptions out.
C22_RetryBound ==
  /\ Len(attempts) <= retries + 1
  /\ \A i \in 1..Len(attempts) : i < Len(attempts) => Failed(i)
  /\ hl_pc # "raised"
  /\ hl_pc = "returned" =>
       \/ /\ highlights = "local_highlights"
          /\ attempts[Len(attempts)] = "returned"
       \/ /\ highlights = "empty"
          /\ Len(attempts) = retries + 1
          /\ \A i \in 1..Len(attempts) : Failed(i)
  /\ highlights # "unset" => hl_pc = "returned"

\* every allowed attempt failed, by a timeout and by another driver error,
\* and the function returned the empty fields
C22_Witness ==
  /\ hl_pc = "returned"
  /\ highlights = "empty"
  /\ retries = MaxRetries
  /\ \E i, j \in 1..Len(attempts) :
       attempts[i] = "TimeoutException" /\ attempts[j] = "WebDriverException"

\* C23: the delay slept after the i-th failed attempt is backoff * i; a delay
\* follows a failed attempt only when another attempt follows it, never the
\* last one, so retries delays are slept when every attempt fails.
C23_LinearBackoff ==
  /\ \A i \in 1..Len(sleeps) : sleeps[i] = backoff * i
  /\ Len(sleeps) <= retries
  /\ hl_pc # "backoff" => Len(sleeps) = Min(attempt, retries)
  /\ hl_pc = "backoff" => Len(sleeps) = attempt
  /\ hl_pc = "returned" /\ highlights = "empty" => Len(sleeps) = retries
  /\ hl_pc = "returned" /\ highlights = "local_highlights" =>
       Len(sleeps) = Len(attempts) - 1

\* with a backoff of 1.5 s every attempt failed: 1.5 s and 3.0 s were slept
C23_Witness ==
  /\ hl_pc = "returned"
  /\ highlights = "empty"
  /\ sleeps = <<backoff_default, 2 * backoff_default>>

\* C24: after every call of attempt_once, returned or raised, the listing
\* window is open, the driver is focused on it, and as many windows are open
\* as before the call.
C24_ListingKept ==
  hl_pc \in {"return", "except", "returned"} =>
    /\ \E i \in 1..Len(window_handles) : window_handles[i] = listing_window
    /\ current_window_handle = listing_window
    /\ Len(window_handles) = 1

(***************************************************************************)
(* hku_tpg_scrapper.py: fetch_programmes.  A listing page is the items the *)
(* loop of lines 305-365 reads one after the other; an item is its link    *)
(* (href, "" when missing) and whether any of abbr, faculty, title, mode   *)
(* has text.  A row is kept as the item it was built from.                 *)
(***************************************************************************)
MaxItems == 2        \* items on one listing page
MaxPages == 2        \* listing pages
MaxReads == 3        \* iterations of the pagination loop

LINKS == {"", "/programme/1", "/programme/2"}
ITEMS == LINKS \X BOOLEAN
MAX_DETAILS == {no_limit, 0, 1}

\* what no step of fetch_programmes changes
beside_programmes == <<crawler, highlightsv, scrapev, mainpyv, seqv>>

\* the finally clause is lost for exceptions no except clause names
AfterRaise_no_finally(e) == IF e \in SELENIUM_EXCEPTIONS THEN "except" ELSE "raised"

\* where an exception raised inside the try block of lines 277-414 goes
AfterRaise(e) == IF e \in SELENIUM_EXCEPTIONS THEN "except" ELSE "finally"

FpRaise(e) ==
  /\ fp_exception' = e
  /\ fp_pc' = AfterRaise(e)

\* the test for a seen link is lost
SkipItem_no_dedupe(it, seen) == it[1] = "" \/ ~it[2]

\* if not link or link in seen_links: continue
\* if not any([abbr, faculty, title, mode]): continue
SkipItem(it, seen) == it[1] = "" \/ it[1] \in seen \/ ~it[2]

\* the limit is tested one detail page too late
WantDetails_one_more ==
  fetch_details /\ (max_details = no_limit \/ details_count <= max_details)

\* if fetch_details and (max_details is None or details_count < max_details)
WantDetails == fetch_details /\ (max_details = no_limit \/ details_count < max_details)

InitProgrammes ==
  /\ InitCrawler("hku_tpg", math_inf, 0, {})
  /\ NoHighlights
  /\ NoScrape
  /\ NoMain
  /\ NoSequential
  /\ fetch_details \in BOOLEAN
  /\ max_details \in MAX_DETAILS
  /\ last_page \in 1..MaxPages
  /\ fp_pc = "create_driver"
  /\ NoProgrammes

\* driver = create_driver(headless=headless): RuntimeError when Chrome
\* cannot be started
CreateDriver ==
  /\ fp_pc = "create_driver"
  /\ \/ driver' = "Chrome" /\ fp_pc' = "get" /\ UNCHANGED fp_exception
     \/ FpRaise("RuntimeError") /\ UNCHANGED driver
  /\ UNCHANGED <<fetch_details, max_details, quit_calls, programmes, seen_links,
                 details_count, page_index, items_left, item, fp_result,
                 detail_fetches, skipped, detailv, last_page, pagev, caught,
                 beside_programmes>>

\* driver.get(url), then the locals of lines 286-289
Get ==
  /\ fp_pc = "get"
  /\ \/ /\ fp_pc' = "wait_items"
        /\ page_index' = 1
        /\ displayed' = 1
        /\ UNCHANGED fp_exception
     \/ /\ \E e \in {"WebDriverException", "TimeoutException"} : FpRaise(e)
        /\ UNCHANGED <<page_index, displayed>>
  /\ UNCHANGED <<fetch_details, max_details, driver, quit_calls, programmes,
                 seen_links, details_count, items_left, item, fp_result,
                 detail_fetches, skipped, detailv, last_page, next_control,
                 pages_read, caught, beside_programmes>>

\* items = wait.until(EC.presence_of_all_elements_located(...))
WaitItems ==
  /\ fp_pc = "wait_items"
  /\ \/ /\ items_left' \in 1..MaxItems
        /\ pages_read' = Append(pages_read, displayed)
        /\ fp_pc' = "for_item"
        /\ UNCHANGED fp_exception
     \/ /\ FpRaise("TimeoutException")
        /\ UNCHANGED <<items_left, pages_read>>
  /\ UNCHANGED <<fetch_details, max_details, driver, quit_calls, programmes,
                 seen_links, details_count, page_index, item, fp_result,
                 detail_fetches, skipped, detailv, last_page, displayed,
                 next_control, caught, beside_programmes>>

\* for item in items: the fields of the item are read and the two tests of
\* lines 320-324 made; reading an element can raise
ForItem ==
  /\ fp_pc = "for_item"
  /\ \/ /\ items_left = 0
        /\ fp_pc' = "next"
        /\ UNCHANGED <<items_left, item, skipped, fp_exception, detail_fields>>
     \/ /\ items_left > 0
        /\ \E it \in ITEMS :
             IF SkipItem(it, seen_links)
             THEN /\ skipped' = skipped \cup {it}
                  /\ items_left' = items_left - 1
                  /\ UNCHANGED <<fp_pc, item, detail_fields>>
             ELSE /\ item' = it
                  /\ detail_fields' = ""
                  /\ fp_pc' = IF WantDetails THEN "details" ELSE "append"
                  /\ UNCHANGED <<skipped, items_left>>
        /\ UNCHANGED fp_exception
     \/ /\ items_left > 0
        /\ \E e \in {"WebDriverException", "OtherException"} : FpRaise(e)
        /\ UNCHANGED <<items_left, item, skipped, detail_fields>>
  /\ UNCHANGED <<fetch_details, max_details, driver, quit_calls, programmes,
                 seen_links, details_count, page_index, fp_result, detail_fetches,
                 row_details, last_page, pagev, caught, beside_programmes>>

\* highlights = fetch_programme_highlights(driver, link, ...), which returns
\* the fields it found or, having given up, the empty fields; the five fields
\* are copied and details_count += 1
Details ==
  /\ fp_pc = "details"
  /\ detail_fetches' = Append(detail_fetches, item[1])
  /\ \/ /\ detail_fields' \in {"highlights", ""}
        /\ details_count' = details_count + 1
        /\ fp_pc' = "append"
        /\ UNCHANGED fp_exception
     \/ /\ FpRaise("OtherException")
        /\ UNCHANGED <<details_count, detail_fields>>
  /\ UNCHANGED <<fetch_details, max_details, driver, quit_calls, programmes,
                 seen_links, page_index, items_left, item, fp_result, skipped,
                 row_details, last_page, pagev, caught, beside_programmes>>

\* programmes.append(Programme(...)); seen_links.add(link)
AppendRow ==
  /\ fp_pc = "append"
  /\ programmes' = Append(programmes, item)
  /\ row_details' = Append(row_details, detail_fields)
  /\ seen_links' = seen_links \cup {item[1]}
  /\ items_left' = items_left - 1
  /\ item' = NoItem
  /\ fp_pc' = "for_item"
  /\ UNCHANGED <<fetch_details, max_details, driver, quit_calls, details_count,
                 page_index, fp_exception, fp_result, detail_fetches, skipped,
                 detail_fields, last_page, pagev, caught, beside_programmes>>

\* the `next` control a page of the listing shows: on the last page it is
\* missing or disabled, on the others it holds a link or, broken, none
Controls(page, last) ==
  IF page = last THEN {"missing", "disabled"} ELSE {"link", "no_link"}

\* the pagination control: no next element, a disabled one or one without a
\* link ends the loop; otherwise next_a.click() and page_index += 1.  The two
\* waits for the page change run under suppress(Exception): when they time
\* out the loop goes on with the page the browser shows, changed or not
NextPage ==
  /\ fp_pc = "next"
  /\ \/ /\ \E control \in Controls(displayed, last_page) :
             /\ next_control' = control
             /\ IF control # "link"
                THEN /\ fp_pc' = "return"
                     /\ UNCHANGED <<page_index, displayed>>
                ELSE /\ page_index < MaxReads
                     /\ page_index' = page_index + 1
                     /\ displayed' \in {displayed, displayed + 1}
                     /\ fp_pc' = "wait_items"
        /\ UNCHANGED fp_exception
     \/ /\ \E e \in {"WebDriverException", "OtherException"} : FpRaise(e)
        /\ UNCHANGED <<page_index, displayed, next_control>>
  /\ UNCHANGED <<fetch_details, max_details, driver, quit_calls, programmes,
                 seen_links, details_count, items_left, item, fp_result,
                 detail_fetches, skipped, detailv, last_page, pages_read, caught,
                 beside_programmes>>

\* return [asdict(p) for p in programmes]
ReturnRows ==
  /\ fp_pc = "return"
  /\ fp_result' = programmes
  /\ fp_pc' = "finally"
  /\ UNCHANGED <<fetch_details, max_details, driver, quit_calls, programmes,
                 seen_links, details_count, page_index, items_left, item,
                 fp_exception, detail_fetches, skipped, detailv, last_page,
                 pagev, caught, beside_programmes>>

\* the rows collected before the exception are returned
ExceptResult_partial(rows) == rows

\* return []
ExceptResult(rows) == <<>>

\* except TimeoutException: return [] / except WebDriverException as e: return []
ExceptClause ==
  /\ fp_pc = "except"
  /\ caught' = fp_exception
  /\ fp_exception' = "none"
  /\ fp_result' = ExceptResult(programmes)
  /\ fp_pc' = "finally"
  /\ UNCHANGED <<fetch_details, max_details, driver, quit_calls, programmes,
                 seen_links, details_count, page_index, items_left, item,
                 detail_fetches, skipped, detailv, last_page, pagev,
                 beside_programmes>>

\* finally: if driver: driver.quit(); then the function returns or the
\* exception leaves it
Finally ==
  /\ fp_pc = "finally"
  /\ quit_calls' = IF driver # "None" THEN quit_calls + 1 ELSE quit_calls
  /\ fp_pc' = IF fp_exception = "none" THEN "returned" ELSE "raised"
  /\ UNCHANGED <<fetch_details, max_details, driver, programmes, seen_links,
                 details_count, page_index, items_left, item, fp_exception,
                 fp_result, detail_fetches, skipped, detailv, last_page, pagev,
                 caught, beside_programmes>>

NextProgrammes ==
  \/ CreateDriver
  \/ Get
  \/ WaitItems
  \/ ForItem
  \/ Details
  \/ AppendRow
  \/ NextPage
  \/ ReturnRows
  \/ ExceptClause
  \/ Finally

SpecProgrammes == InitProgrammes /\ [][NextProgrammes]_vars

\* C25: when create_driver returned a driver, fetch_programmes has called
\* driver.quit() exactly once when it returns or lets an exception out,
\* whatever ended it, and it does not call it before.
C25_BrowserClosed ==
  /\ fp_pc \in {"returned", "raised"} /\ driver # "None" => quit_calls = 1
  /\ fp_pc \notin {"returned", "raised"} => quit_calls = 0
  /\ driver = "None" => quit_calls = 0

\* rows were collected, then an exception no except clause names left the
\* function, and the browser was closed
C25_Witness ==
  /\ fp_pc = "raised"
  /\ fp_exception = "OtherException"
  /\ programmes # <<>>
  /\ quit_calls = 1

Links(rows) == {rows[i][1] : i \in 1..Len(rows)}

NoRepeat(q) == \A i, j \in 1..Len(q) : q[i] = q[j] => i = j

\* C30: the rows collected over all listing pages, and the list returned,
\* hold at most one row per link; no row has an empty link or four empty
\* listing fields; an item passed over gets no detail fetch, so the detail
\* fetches are made for links of rows, once each; seen_links is the set of
\* the links of the rows collected so far.
C30_NoDuplicateRows ==
  /\ \A i, j \in 1..Len(programmes) : programmes[i][1] = programmes[j][1] => i = j
  /\ \A i \in 1..Len(programmes) : programmes[i][1] # "" /\ programmes[i][2]
  /\ seen_links = Links(programmes)
  /\ NoRepeat(detail_fetches)
  /\ \A i \in 1..Len(detail_fetches) :
       detail_fetches[i] \in seen_links \/ (fp_pc \in {"append", "finally", "raised"}
                                             /\ detail_fetches[i] = item[1])
  /\ fp_pc = "returned" =>
       /\ fp_result \in {programmes, <<>>}
       /\ \A i, j \in 1..Len(fp_result) : fp_result[i][1] = fp_result[j][1] => i = j

\* the listing showed a programme again on the second page, the item was
\* passed over, and both programmes were returned as one row each
C30_Witness ==
  /\ fp_pc = "returned"
  /\ page_index = MaxPages
  /\ Len(fp_result) = 2
  /\ \E it \in skipped : it[1] \in seen_links /\ it[2]
  /\ Len(detail_fetches) = 1

(***************************************************************************)
(* src/base_scraper.py: BaseScraper.scrape_all_courses.  The two abstract  *)
(* methods return or raise as the subclass and the network decide;         *)
(* get_msc_course_urls returns a list without repeats, as HKUScraper       *)
(* builds it (`if full_url not in course_urls`) and the mock scrapers      *)
(* write it.                                                               *)
(***************************************************************************)
MaxCourseUrls == 2   \* length of the longest list get_msc_course_urls returns

COURSE_URLS == {"/msc/1", "/msc/2", "/msc/3"}

COURSE_URL_LISTS ==
  {q \in UNION {[1..n -> COURSE_URLS] : n \in 0..MaxCourseUrls} : NoRepeat(q)}

\* exceptions the methods of a scraper raise; both derive from Exception
EXCEPTION_SUBCLASSES == {"RequestException", "AttributeError"}

\* what no step of scrape_all_courses changes
beside_scrape == <<crawler, highlightsv, programmesv, mainpyv, seqv>>

\* the handler names one class only
ScrapeCaught_requests_only(e) == e = "RequestException"

\* except Exception as e:
ScrapeCaught(e) == e \in EXCEPTION_SUBCLASSES

ScrapeRaise(e) ==
  /\ sc_exception' = e
  /\ sc_pc' = IF ScrapeCaught(e) THEN "except" ELSE "raised"

InitScrape ==
  /\ InitCrawler("base_scraper", math_inf, 0, {})
  /\ NoHighlights
  /\ NoFetchProgrammes
  /\ NoMain
  /\ NoSequential
  /\ sc_pc = "get_msc_course_urls"
  /\ NoCourses

\* course_urls = self.get_msc_course_urls()
GetMscCourseUrls ==
  /\ sc_pc = "get_msc_course_urls"
  /\ \/ /\ course_urls' \in COURSE_URL_LISTS
        /\ sc_pc' = "for"
        /\ UNCHANGED sc_exception
     \/ /\ \E e \in EXCEPTION_SUBCLASSES : ScrapeRaise(e)
        /\ UNCHANGED course_urls
  /\ UNCHANGED <<sc_i, courses, success, error_message, extracted, beside_scrape>>

\* for i, url in enumerate(course_urls): ... / success = True
ForUrl ==
  /\ sc_pc = "for"
  /\ IF sc_i < Len(course_urls)
     THEN sc_pc' = "extract_course_info" /\ UNCHANGED success
     ELSE sc_pc' = "return" /\ success' = "True"
  /\ UNCHANGED <<course_urls, sc_i, courses, error_message, sc_exception,
                 extracted, beside_scrape>>

\* course_info = self.extract_course_info(url); if course_info: courses.append
ExtractCourseInfo ==
  /\ sc_pc = "extract_course_info"
  /\ \/ /\ courses' = Append(courses, course_urls[sc_i + 1])
        /\ extracted' = Append(extracted, "CourseInfo")
        /\ sc_i' = sc_i + 1
        /\ sc_pc' = "for"
        /\ UNCHANGED sc_exception
     \/ /\ extracted' = Append(extracted, "None")
        /\ sc_i' = sc_i + 1
        /\ sc_pc' = "for"
        /\ UNCHANGED <<courses, sc_exception>>
     \/ /\ \E e \in EXCEPTION_SUBCLASSES : ScrapeRaise(e)
        /\ UNCHANGED <<courses, extracted, sc_i>>
  /\ UNCHANGED <<course_urls, success, error_message, beside_scrape>>

\* except Exception as e: success = False; error_message = str(e)
ExceptScrape ==
  /\ sc_pc = "except"
  /\ success' = "False"
  /\ error_message' = sc_exception
  /\ sc_pc' = "return"
  /\ UNCHANGED <<course_urls, sc_i, courses, sc_exception, extracted, beside_scrape>>

\* return ScrapingResult(university, success, courses, error_message, scraped_at)
ReturnResult ==
  /\ sc_pc = "return"
  /\ sc_pc' = "returned"
  /\ UNCHANGED <<course_urls, sc_i, courses, success, error_message, sc_exception,
                 extracted, beside_scrape>>

NextScrape ==
  \/ GetMscCourseUrls
  \/ ForUrl
  \/ ExtractCourseInfo
  \/ ExceptScrape
  \/ ReturnResult

SpecScrape == InitScrape /\ [][NextScrape]_vars

\* the URLs among the first n of urls for which a course was extracted
RECURSIVE Kept(_, _, _)
Kept(urls, outs, n) ==
  IF n = 0 THEN <<>>
  ELSE IF outs[n] = "CourseInfo" THEN Append(Kept(urls, outs, n - 1), urls[n])
       ELSE Kept(urls, outs, n - 1)

\* C26: scrape_all_courses lets no exception of its two methods out. When
\* one raised, the result has success = False, the message of the exception
\* and the courses collected before it; otherwise success = True, no message
\* and the course of every URL but those extract_course_info gave None for.
\* Always courses follows the order of course_urls, one entry per URL at most.
C26_ScrapeNeverRaises ==
  /\ sc_pc # "raised"
  /\ courses = Kept(course_urls, extracted, Len(extracted))
  /\ NoRepeat(courses)
  /\ sc_pc = "returned" =>
       IF sc_exception # "none"
       THEN success = "False" /\ error_message = sc_exception
       ELSE /\ success = "True"
            /\ error_message = "None"
            /\ Len(extracted) = Len(course_urls)

\* a course was collected, then extract_course_info raised for a later URL
C26_Witness ==
  /\ sc_pc = "returned"
  /\ success = "False"
  /\ error_message = "AttributeError"
  /\ Len(courses) = 1
  /\ Len(course_urls) = MaxCourseUrls

(***************************************************************************)
(* main.py: main(), from get_scrapers() to the final summary, with         *)
(* DataExporter.export_all_formats written out.  A call of a scraper or of *)
(* an export returns or raises an exception derived from Exception.        *)
(***************************************************************************)
\* get_scrapers(): none enabled, the real scraper, the two mock scrapers
SCRAPER_LISTS == {<<>>, <<"HKU">>, <<"HKU", "CUHK">>}

FORMATS == <<"json", "csv", "excel">>

OUTPUT_FORMATS == {"json", "csv", "excel", "all"}

\* what no step of main() changes
beside_main == <<crawler, highlightsv, programmesv, scrapev, seqv>>

\* the except clause of the scraping loop adds no result
OnScraperError_dropped(rs, university) == rs

\* except Exception as e: ... results.append(failed_result)
OnScraperError(rs, university) == Append(rs, <<university, FALSE, 0>>)

\* the first export that raises ends export_all_formats
AfterExport_abort(f, raised) ==
  IF raised THEN "report"
  ELSE IF f = "json" THEN "export_csv" ELSE IF f = "csv" THEN "export_excel" ELSE "report"

\* export_all_formats: the statement after the try/except of format f
AfterExport(f, raised) ==
  IF f = "json" THEN "export_csv" ELSE IF f = "csv" THEN "export_excel" ELSE "report"

InitMain ==
  /\ InitCrawler("main", math_inf, 0, {})
  /\ NoHighlights
  /\ NoFetchProgrammes
  /\ NoScrape
  /\ NoSequential
  /\ scrapers \in SCRAPER_LISTS
  /\ output_format \in OUTPUT_FORMATS
  /\ mn_pc = "get_scrapers"
  /\ NoResults

\* scrapers = get_scrapers(...); if not scrapers: return
GetScrapers ==
  /\ mn_pc = "get_scrapers"
  /\ mn_pc' = IF scrapers = <<>> THEN "returned" ELSE "for_scraper"
  /\ UNCHANGED <<scrapers, output_format, mn_i, results, export_files,
                 raised_scrapers, export_calls, export_failed, beside_main>>

\* for scraper in scrapers: try: result = scraper.scrape_all_courses(...);
\* results.append(result) / except Exception: results.append(failed_result)
ScrapeAllCourses ==
  /\ mn_pc = "for_scraper"
  /\ mn_i < Len(scrapers)
  /\ \/ /\ \E ok \in BOOLEAN, n \in 0..MaxCourseUrls :
             results' = Append(results, <<scrapers[mn_i + 1], ok, n>>)
        /\ UNCHANGED raised_scrapers
     \/ /\ results' = OnScraperError(results, scrapers[mn_i + 1])
        /\ raised_scrapers' = raised_scrapers \cup {mn_i + 1}
  /\ mn_i' = mn_i + 1
  /\ UNCHANGED <<scrapers, output_format, mn_pc, export_files, export_calls,
                 export_failed, beside_main>>

\* the loop is over: exporter = DataExporter(config.output_directory)
EndFor ==
  /\ mn_pc = "for_scraper"
  /\ mn_i = Len(scrapers)
  /\ mn_pc' = IF output_format = "all" THEN "export_json" ELSE "export_one"
  /\ UNCHANGED <<scrapers, output_format, mn_i, results, export_files,
                 raised_scrapers, export_calls, export_failed, beside_main>>

\* export_files[format] = exporter.export_<format>(results), inside the try
\* of main(): an exception goes to its except clause
ExportOne ==
  /\ mn_pc = "export_one"
  /\ export_calls' = Append(export_calls, output_format)
  /\ \/ /\ export_files' = export_files \cup {output_format}
        /\ mn_pc' = "report"
        /\ UNCHANGED export_failed
     \/ /\ export_failed' = export_failed \cup {output_format}
        /\ mn_pc' = "final"
        /\ UNCHANGED export_files
  /\ UNCHANGED <<scrapers, output_format, mn_i, results, raised_scrapers, beside_main>>

\* export_all_formats: try: export_files[f] = self.export_<f>(...)
\* except Exception as e: self.logger.error(...)
ExportFormat(f) ==
  /\ mn_pc = "export_" \o f
  /\ export_calls' = Append(export_calls, f)
  /\ \/ /\ export_files' = export_files \cup {f}
        /\ mn_pc' = AfterExport(f, FALSE)
        /\ UNCHANGED export_failed
     \/ /\ export_failed' = export_failed \cup {f}
        /\ mn_pc' = AfterExport(f, TRUE)
        /\ UNCHANGED export_files
  /\ UNCHANGED <<scrapers, output_format, mn_i, results, raised_scrapers, beside_main>>

\* the log of the files, then exporter.generate_summary_report(results),
\* which returns or raises into the except clause of main()
Report ==
  /\ mn_pc = "report"
  /\ mn_pc' = "final"
  /\ UNCHANGED <<scrapers, output_format, mn_i, results, export_files,
                 raised_scrapers, export_calls, export_failed, beside_main>>

\* the final summary
Final ==
  /\ mn_pc = "final"
  /\ mn_pc' = "returned"
  /\ UNCHANGED <<scrapers, output_format, mn_i, results, export_files,
                 raised_scrapers, export_calls, export_failed, beside_main>>

NextMain ==
  \/ GetScrapers
  \/ ScrapeAllCourses
  \/ EndFor
  \/ ExportOne
  \/ \E k \in 1..Len(FORMATS) : ExportFormat(FORMATS[k])
  \/ Report
  \/ Final

SpecMain == InitMain /\ [][NextMain]_vars

\* C27: results holds one result per scraper the loop is done with, in the
\* order of the scrapers; the result of a scraper that raised has success =
\* False and no courses; the loop goes on to the later scrapers, and main()
\* does not end before all have a result and the export was called.
C27_OneResultPerScraper ==
  /\ Len(results) = mn_i
  /\ \A i \in 1..Len(results) : results[i][1] = scrapers[i]
  /\ \A i \in raised_scrapers : results[i][2] = FALSE /\ results[i][3] = 0
  /\ mn_pc \notin {"get_scrapers", "for_scraper"} => Len(results) = Len(scrapers)
  /\ mn_pc = "returned" /\ scrapers # <<>> => export_calls # <<>>

\* the first scraper raised, the second one returned courses, and the
\* export wrote a file
C27_Witness ==
  /\ mn_pc = "returned"
  /\ raised_scrapers = {1}
  /\ Len(results) = 2
  /\ results[2][2]
  /\ results[2][3] > 0
  /\ export_files # {}

Attempted_formats == {export_calls[i] : i \in 1..Len(export_calls)}

\* C28: export_all_formats calls the exports of json, csv and excel once
\* each, in this order, whichever of them raised; export_files has the key
\* of a format exactly when its export returned; main() reaches the line
\* after the call whatever the exports did.
C28_ExportIsolation ==
  output_format = "all" =>
    /\ export_calls = SubSeq(FORMATS, 1, Len(export_calls))
    /\ export_files = Attempted_formats \ export_failed
    /\ mn_pc \in {"report", "final", "returned"} /\ scrapers # <<>> =>
         export_calls = FORMATS

\* the export of json raised and the two later formats were written
C28_Witness ==
  /\ output_format = "all"
  /\ mn_pc = "report"
  /\ export_failed = {"json"}
  /\ export_files = {"csv", "excel"}

\* C29: in template/scapper.py a worker whose fetch_url gave up on a URL
\* goes back to the loop test and takes the next queue entry.
C29_FailedFetchContinues ==
  [][\A w \in Workers :
       pc[w] = "fetched" /\ response[w] # "Response" /\ pc'[w] # pc[w]
         => pc'[w] = "while_high"]_vars

\* C31: with max_details = m at most m detail pages are fetched in the whole
\* run and details_count never exceeds m; a fetch counts whatever it
\* returned, so between two items details_count is the number of rows, up to
\* m; a row beyond the limit is appended with empty detail fields; with
\* fetch_details = False no detail page is fetched.
C31_DetailLimit ==
  /\ max_details # no_limit =>
       details_count <= max_details /\ Len(detail_fetches) <= max_details
  /\ ~fetch_details => detail_fetches = <<>> /\ details_count = 0
  /\ \A i \in 1..Len(row_details) :
       ~fetch_details \/ (max_details # no_limit /\ i > max_details)
         => row_details[i] = ""
  /\ Len(row_details) = Len(programmes)
  /\ fetch_details /\ fp_pc \in {"for_item", "next", "return"} =>
       details_count = IF max_details = no_limit THEN Len(programmes)
                       ELSE Min(Len(programmes), max_details)

\* with a limit of one detail page the fetch for the first programme came
\* back empty, and the second programme was appended without a fetch
C31_Witness ==
  /\ fetch_details
  /\ max_details = 1
  /\ fp_pc = "returned"
  /\ Len(fp_result) = 2
  /\ row_details = <<"", "">>
  /\ Len(detail_fetches) = 1
  /\ details_count = 1

\* C32: the pagination loop ends normally exactly when the `next` control is
\* missing, disabled or without a link; when it ends at a missing or disabled
\* control, which the listing shows on its last page, every page of the
\* listing was read once, in order, and the rows of all pages are returned.
C32_PaginationStop ==
  /\ fp_pc = "return" <=> next_control \in {"missing", "disabled", "no_link"}
                          /\ fp_result = "unset" /\ fp_exception = "none"
  /\ fp_pc = "returned" /\ caught = "none" /\ next_control \in {"missing", "disabled"} =>
       /\ pages_read = [i \in 1..last_page |-> i]
       /\ fp_result = programmes

\* C35: when an except clause of fetch_programmes handled a TimeoutException
\* or WebDriverException, on whatever page, the function returns the empty
\* list; a list with rows is returned only after the loop ended at a `next`
\* control, and it is then the list of all rows collected.
C35_AllOrNothing ==
  /\ caught # "none" => caught \in SELENIUM_EXCEPTIONS
  /\ fp_pc = "returned" =>
       IF caught # "none" THEN fp_result = <<>>
       ELSE /\ fp_result = programmes
            /\ next_control \in {"missing", "disabled", "no_link"}
  /\ fp_pc = "raised" => fp_result = "unset"

\* rows of the first page were collected, the wait for the items of the
\* second page timed out, and the empty list was returned
C35_Witness ==
  /\ fp_pc = "returned"
  /\ caught = "TimeoutException"
  /\ programmes # <<>>
  /\ page_index = 2
  /\ pages_read = <<1>>
  /\ fp_result = <<>>

(***************************************************************************)
(* scapper.py: the sequential crawler().  A page carries up to MaxLinks    *)
(* link elements whose href values come from the site's links; a request   *)
(* is answered with a page or with an error status.                        *)
(***************************************************************************)
\* the href values of the site of the sequential crawler
SEQ_HREFS == HREFS \cup PAGE_HREFS

\* what no step of the sequential crawler changes
beside_sequential == <<crawler, highlightsv, programmesv, scrapev, mainpyv>>

\* urls_to_visit = [target_url]
InitSequential ==
  /\ \E m \in 1..MaxBudget : InitCrawler("scapper", m, 0, SEQ_HREFS)
  /\ NoScrapers
  /\ urls_to_visit = <<target_url>>
  /\ seq_pc = "while"
  /\ NoRequests

In(q, url) == \E i \in 1..Len(q) : q[i] = url

\* while urls_to_visit and crawl_count < max_crawl:
\*     current_url = urls_to_visit.pop(0)
SeqWhile ==
  /\ seq_pc = "while"
  /\ IF urls_to_visit # <<>> /\ seq_crawl_count < max_crawl
     THEN /\ seq_current_url' = Head(urls_to_visit)
          /\ urls_to_visit' = Tail(urls_to_visit)
          /\ seq_pc' = "get"
     ELSE /\ seq_pc' = "done"
          /\ UNCHANGED <<seq_current_url, urls_to_visit>>
  /\ UNCHANGED <<seq_crawl_count, seq_links_seen, requested, beside_sequential>>

\* response = requests.get(current_url); response.raise_for_status():
\* a URL without a scheme raises MissingSchema before a request is sent, an
\* error status raises HTTPError; nothing catches either
SeqGet ==
  /\ seq_pc = "get"
  /\ IF seq_current_url[1] # "http"
     THEN seq_pc' = "raised" /\ UNCHANGED requested
     ELSE /\ requested' = Append(requested, seq_current_url)
          /\ seq_pc' \in {"links", "raised"}
  /\ seq_links_seen' = 0
  /\ UNCHANGED <<urls_to_visit, seq_crawl_count, seq_current_url, beside_sequential>>

\* for link_element in link_elements: ... urls_to_visit.append(url), and
\* after the last link crawl_count += 1
SeqLink ==
  /\ seq_pc = "links"
  /\ \/ /\ seq_links_seen < MaxLinks
        /\ \E url \in hrefs :
             urls_to_visit' =
               IF StartsWith(Absolute(url), target_url) /\ ~In(urls_to_visit, Absolute(url))
               THEN Append(urls_to_visit, url)
               ELSE urls_to_visit
        /\ seq_links_seen' = seq_links_seen + 1
        /\ UNCHANGED <<seq_pc, seq_crawl_count, seq_current_url>>
     \/ /\ seq_crawl_count' = seq_crawl_count + 1
        /\ seq_pc' = "while"
        /\ seq_current_url' = NoUrl
        /\ UNCHANGED <<urls_to_visit, seq_links_seen>>
  /\ UNCHANGED <<requested, beside_sequential>>

NextSequential ==
  \/ SeqWhile
  \/ SeqGet
  \/ SeqLink

SpecSequential == InitSequential /\ [][NextSequential]_vars

\* C33: in scapper.py no URL is requested twice in one run, every entry of
\* urls_to_visit is an absolute URL inside the target domain, and at most
\* max_crawl requests are made.
C33_SequentialFrontier ==
  /\ NoRepeat(requested)
  /\ \A i \in 1..Len(urls_to_visit) :
       urls_to_visit[i][1] = "http" /\ StartsWith(urls_to_visit[i], target_url)
  /\ Len(requested) <= max_crawl


\* C34: in msc_scapper.py a record enters product_data only by the append of
\* a worker that is processing a URL which matches url_pattern, which it took
\* from a queue, added to visited_urls and fetched with a response; no worker
\* is about to append for a page that does not match; an iteration whose URL
\* was already visited, or whose fetch gave no response, changes neither the
\* queues nor product_data and goes back to the loop test.
C34_RecordsFromMatchingPages ==
  /\ [](\A i \in 1..Len(product_data) :
           /\ url_pattern_search(product_data[i][1])
           /\ product_data[i][1] \in visited_urls
           /\ fetch_calls[product_data[i][1]] > 0)
  /\ [](\A w \in Workers :
           pc[w] \in {"push", "append"}
              => /\ current_url[w] \in visited_urls
                 /\ fetch_calls[current_url[w]] > 0
                 /\ pc[w] = "append" => url_pattern_search(current_url[w]))
  /\ [][\A w \in Workers :
           /\ product_data' # product_data
                => \E v \in Workers :
                      /\ pc[v] = "append"
                      /\ url_pattern_search(current_url[v])
                      /\ product_data' = Append(product_data, Record(v))
           /\ pc[w] # pc'[w] /\ pc'[w] \in {"push", "append"}
                => \/ pc[w] \in {"push", "append"}
                   \/ pc[w] = "fetched" /\ response[w] = "Response"
           /\ (/\ pc'[w] # pc[w]
               /\ \/ pc[w] = "fetched" /\ response[w] # "Response"
                  \/ pc[w] = "check_visited" /\ current_url[w] \in visited_urls)
                => (/\ pc'[w] = "while_high"
                    /\ UNCHANGED <<queues, product_data>>)]_vars

\* the seed page, which does not match, put both product pages on the queue
\* and gave no record; the record of one product page is stored, and the
\* fetch of the other product page gave no response
C34_Witness ==
  /\ ~url_pattern_search(target_url)
  /\ fetch_calls[target_url] > 0
  /\ {page_url, page1_url} \subseteq discovered
  /\ product_data # <<>>
  /\ ~all_succeeded
  /\ \A w \in Workers : pc[w] = "while_high"
====
